---------------------------- MODULE Spec2Model ----------------------------
(***************************************************************************)
(* kaguya::State (lua-support/kaguya/state.hpp): the owning/adopting       *)
(* wrapper of a lua_State.  The model keeps, for every VM identity, the    *)
(* part of the VM the wrapper can observe (open/closed, panic function,    *)
(* evaluation stack, global and environment tables, loaded libraries), the *)
(* ErrorHandler registry keyed by VM identity, and the State objects.      *)
(* Every public method of State is one operator on a VM record, and one    *)
(* action applies it to the VM of a live State object.                     *)
(***************************************************************************)
EXTENDS Integers, Sequences, FiniteSets, TLC

\* ------------------------------------------------------------------ bounds
NumVMs     == 1     \* VM identities (addresses a lua_State can live at)
NumHandles == 2     \* State objects alive at the same time
MaxStack   == 1     \* values the host leaves on the stack between calls
MaxLibs    == 2     \* length of a LoadLibs list
MaxKB      == 2     \* KBytes of garbage a VM holds at most

VMs     == 1..NumVMs
Handles == 1..NumHandles

\* ------------------------------------------------------------ value domains
NoHandler == "none"                        \* empty standard::function
UserHandlers == {"A", "B"}                 \* functions the host can register
Handlers  == UserHandlers \cup {"stderror_out"}   \* and State's private default

NilEnv   == "nil"                          \* LuaTable() : the nil reference
EnvTable == "E"                            \* a new, empty table the host made for the run
GlobalTable == "G"
TableIds == {GlobalTable, EnvTable}
Keys     == {"x"}
Nil      == "nil"
Vals     == {Nil, "10"}

\* A script: status of the compile step, the global assignments the body
\* performs before it ends, the status of the protected call, the number of
\* results a successful body returns, and the error message.
ChunkDef ==
  [ ret2   |-> [loadStatus |-> 0, writes |-> <<>>,           runStatus |-> 0, nres |-> 2, msg |-> "-"],
    setx   |-> [loadStatus |-> 0, writes |-> <<<<"x", "10">>>>, runStatus |-> 0, nres |-> 0, msg |-> "-"],
    boom   |-> [loadStatus |-> 0, writes |-> <<<<"x", "10">>>>, runStatus |-> 2, nres |-> 0, msg |-> "boom"],
    syntax |-> [loadStatus |-> 3, writes |-> <<>>,           runStatus |-> 0, nres |-> 0, msg |-> "syntax"] ]
Chunks == DOMAIN ChunkDef

\* Files: a path names a script, or no readable file (luaL_loadfile then
\* reports LUA_ERRFILE).
FileDef ==
  [ ok_lua      |-> [loadStatus |-> 0, chunk |-> "setx", msg |-> "-"],
    boom_lua    |-> [loadStatus |-> 0, chunk |-> "boom", msg |-> "-"],
    missing_lua |-> [loadStatus |-> 6, chunk |-> "syntax", msg |-> "cannot open"] ]
Files == DOMAIN FileDef

\* A LoadLib: a name and a registrar; the registrar either returns its
\* module or raises an error.
LibDef == [ good |-> [raises |-> FALSE], bad |-> [raises |-> TRUE] ]
Libs   == DOMAIN LibDef
StdLib == "std"
LibNames == Libs \cup {StdLib}

RECURSIVE SeqsUpTo(_, _)
SeqsUpTo(S, n) ==
  IF n = 0 THEN {<<>>}
  ELSE LET shorter == SeqsUpTo(S, n - 1)
       IN shorter \cup {Append(s, x) : s \in {t \in shorter : Len(t) = n - 1}, x \in S}
LoadLibsLists == SeqsUpTo(Libs, MaxLibs)

\* A value on the evaluation stack.
StackVal(kind, ref, body) == [kind |-> kind, ref |-> ref, body |-> body]
NilVal == StackVal("nil", "-", "-")

\* No reference alive.
NoRef == [alive |-> FALSE, h |-> 0, table_index |-> 0, key |-> "-", stack_top |-> 0]

VARIABLES
  vms,        \* VM identity -> the lua_State living there
  handlers,   \* ErrorHandler::instance(): VM identity -> handler
  handles,    \* State objects: state_, created_, allocator_holder_
  aborted,    \* the process has called abort()
  asked,      \* VM identity -> the last two handlers setErrorHandler was called with (history)
  last,       \* what the last operation did (history)
  gc,         \* the collector of one VM: build version, running, memory, tunables
  gclast,     \* what the last call on State::gc() did (history)
  heap,       \* the blocks the C library has given the VM made with AllocatorFunction
  builtin,    \* the blocks it has given a VM of luaL_newstate() that asks for the same
  aud,        \* the ud of the VM made with AllocatorFunction: allocator_holder_.get()
  alast,      \* the last allocation request and what came back (history)
  ref         \* the TableKeyReference operator[] has returned, while it lives

mainvars == <<vms, handlers, handles, aborted, asked, last>>
gcvars   == <<gc, gclast>>
allocvars == <<heap, builtin, aud, alast>>
vars == <<vms, handlers, handles, aborted, asked, last, gc, gclast, heap, builtin, aud, alast, ref>>

\* ------------------------------------------------------- the Lua C API used
\* An operator takes and returns the record L of one VM during one operation:
\* the lua_State (open, owner, ud, panic, stack, tables, loaded), the handler
\* the registry holds for its identity, and what the operation has done so
\* far: status of the last API call, value returned, events, handler calls,
\* and whether the process has aborted.  For the allocator the VM was made
\* with it also has the allocator_holder_ of the State at work, the number
\* of shares State objects hold of the allocator, and whether the VM has
\* called an allocator that is gone.

EmptyTables == [t \in TableIds |-> [k \in Keys |-> Nil]]

ClosedVM == [open |-> FALSE, owner |-> "none", ud |-> "null", panic |-> "none",
             stack |-> <<>>, tables |-> EmptyTables, loaded |-> {}]

\* luaL_newstate / lua_newstate: a new VM with an empty stack, no panic
\* function, empty tables and no library.
luaL_newstate(owner) == [ClosedVM EXCEPT !.open = TRUE, !.owner = owner]

\* lua_newstate(&AllocatorFunction<Allocator>, allocator_holder_.get()): the
\* same, and the VM allocates through the callback with ud.
lua_newstate(owner, ud) == [ClosedVM EXCEPT !.open = TRUE, !.owner = owner, !.ud = ud]

Event(L, e) == [L EXCEPT !.trace = Append(@, e)]

\* The VM asks for, or gives back, memory: with a custom allocator it calls
\* AllocatorFunction, which uses the object ud points to.
lua_alloc(L) ==
  IF L.ud = "null" THEN L ELSE [L EXCEPT !.uaf = @ \/ L.shares = 0]

lua_gettop(L) == Len(L.stack)

lua_settop(L, n) ==
  [L EXCEPT !.stack = [i \in 1..n |-> IF i <= Len(L.stack) THEN L.stack[i] ELSE NilVal],
            !.trace = Append(@, "settop")]

lua_push(L, val) == [L EXCEPT !.stack = Append(@, val)]

lua_pop(L, n) == [L EXCEPT !.stack = SubSeq(@, 1, Len(@) - n)]

lua_atpanic(L, f) == [Event(L, "atpanic") EXCEPT !.panic = f]

\* luaL_loadstring: pushes the compiled chunk, bound to the global table, or
\* the error message; returns the status.
luaL_loadstring(L, str) ==
  LET c == ChunkDef[str]
      v == IF c.loadStatus = 0 THEN StackVal("function", GlobalTable, str)
           ELSE StackVal("message", c.msg, "-")
  IN [lua_push(Event(lua_alloc(L), "load"), v) EXCEPT !.status = c.loadStatus]

\* luaL_loadfile: the same for the script a path names.
luaL_loadfile(L, file) ==
  LET f == FileDef[file]
      v == IF f.loadStatus = 0 THEN StackVal("function", GlobalTable, f.chunk)
           ELSE StackVal("message", f.msg, "-")
  IN [lua_push(Event(lua_alloc(L), "load"), v) EXCEPT !.status = f.loadStatus]

\* LuaRef::push of a table reference.
LuaTable_push(L, env) == lua_push(L, StackVal("table", env, "-"))

\* lua_setupvalue(L, -2, 1) / lua_setfenv(L, -2): pops the table on top and
\* makes it the global namespace of the function below it.
lua_setupvalue(L) ==
  LET n == Len(L.stack)
      f == L.stack[n - 1]
      t == L.stack[n]
  IN [Event(L, "setenv") EXCEPT
        !.stack = Append(SubSeq(L.stack, 1, n - 2), [f EXCEPT !.ref = t.ref])]

RECURSIVE ApplyWrites(_, _)
ApplyWrites(tbl, writes) ==
  IF writes = <<>> THEN tbl
  ELSE ApplyWrites([tbl EXCEPT ![Head(writes)[1]] = Head(writes)[2]], Tail(writes))

\* lua_pcall_wrap(L, 0, LUA_MULTRET): pops the function on top and runs it in
\* protected mode; its global assignments go to the table it is bound to; it
\* leaves its results, or one error message; returns the status.
lua_pcall_wrap(L) ==
  LET n == Len(L.stack)
      f == L.stack[n]
      c == ChunkDef[f.body]
      out == IF c.runStatus = 0
             THEN [i \in 1..c.nres |-> StackVal("result", "-", "-")]
             ELSE <<StackVal("message", c.msg, "-")>>
  IN [Event(lua_alloc(L), "pcall") EXCEPT
        !.stack = SubSeq(L.stack, 1, n - 1) \o out,
        !.tables[f.ref] = ApplyWrites(@, c.writes),
        !.status = c.runStatus]

\* State::default_panic: writes the message to stderr, flushes, returns.
default_panic(L) == Event(Event(Event(L, "default_panic"), "fprintf"), "fflush")

\* An error raised outside any protected call: Lua calls the panic function,
\* if one is set, and then abort().
lua_unprotected_error(L, msg) ==
  LET L1 == lua_push(L, StackVal("message", msg, "-"))
      L2 == IF L1.panic = "none" THEN L1 ELSE default_panic(L1)
  IN [Event(L2, "abort") EXCEPT !.dead = TRUE]

\* luaL_openlibs: opens the standard libraries.
luaL_openlibs(L) == [Event(lua_alloc(L), "openlibs") EXCEPT !.loaded = @ \cup {StdLib}]

\* luaL_requiref(L, name, registrar, 1): calls the registrar (not in
\* protected mode), registers the module under the name and as a global, and
\* leaves a copy of the module on the stack.
luaL_requiref(L, lib) ==
  LET L1 == Event(lua_alloc(L), lib)
  IN IF LibDef[lib].raises THEN lua_unprotected_error(L1, lib)
     ELSE [lua_push(L1, StackVal("table", lib, "-")) EXCEPT !.loaded = @ \cup {lib}]

\* lua_close: frees everything the VM holds, through its allocator.
lua_close(L) ==
  [Event(lua_alloc(L), "lua_close") EXCEPT !.open = FALSE, !.owner = "none",
      !.ud = "null", !.panic = "none", !.stack = <<>>, !.tables = EmptyTables, !.loaded = {}]

\* ---------------------------------------- ErrorHandler and ScopedSavedStack
\* kaguya/error_handler.hpp and kaguya/utility.hpp: the registry holds one
\* handler per VM identity; handle() calls it with the status and the message
\* on the stack top and pops the message.  The stack guard records the top
\* when it is made and restores it when its scope ends.

getHandler(L) == L.handler

registerHandler(L, f) == [Event(L, "registerHandler") EXCEPT !.handler = f]

handle(status, L) ==
  LET h == getHandler(L)
      m == L.stack[Len(L.stack)]
  IN IF h = NoHandler THEN L
     ELSE lua_pop([Event(L, "handle") EXCEPT
                     !.calls = Append(@, [handler |-> h, status |-> status, message |-> m.ref])], 1)

ScopedSavedStack(L) == lua_gettop(L)

ScopedSavedStack_dtor(L, saved_top) == IF L.dead THEN L ELSE lua_settop(L, saved_top)

Return(L, value) == [L EXCEPT !.ret = value]

\* ------------------------------------------------------------ kaguya::State

\* setErrorHandler that keeps a handler already registered.
setErrorHandler_ifabsent(L, errorfunction) ==
  LET save == ScopedSavedStack(L)
  IN ScopedSavedStack_dtor(
       IF getHandler(L) = NoHandler THEN registerHandler(L, errorfunction) ELSE L, save)

\* setErrorHandler that registers nothing.
setErrorHandler_noop(L, errorfunction) ==
  ScopedSavedStack_dtor(L, ScopedSavedStack(L))

\* State::setErrorHandler
setErrorHandler(L, errorfunction) ==
  LET save == ScopedSavedStack(L)
  IN ScopedSavedStack_dtor(registerHandler(L, errorfunction), save)

\* init that installs the default handler whatever is registered.
init_always(L) == Event(setErrorHandler(L, "stderror_out"), "reg_functor_destructor")

\* State::init
init(L) ==
  LET L1 == IF getHandler(L) = NoHandler THEN setErrorHandler(L, "stderror_out") ELSE L
  IN Event(L1, "reg_functor_destructor")

\* State::openlibs()
openlibs_std(L) ==
  LET save == ScopedSavedStack(L)
  IN ScopedSavedStack_dtor(luaL_openlibs(L), save)

\* openlib without the stack guard: the module luaL_requiref pushed stays.
openlib_noguard(L, lib) == luaL_requiref(L, lib)

\* State::openlib
openlib(L, lib) ==
  LET save == ScopedSavedStack(L)
  IN ScopedSavedStack_dtor(luaL_requiref(L, lib), save)

\* openlibs(list) that loads the first entry only.
openlibs_first_only(L, libs) == IF libs = <<>> THEN L ELSE openlib(L, Head(libs))

\* State::openlibs(const LoadLibs&): the loop ends when the list does; once
\* the process has aborted nothing more runs.
RECURSIVE openlibs(_, _)
openlibs(L, libs) ==
  IF libs = <<>> \/ L.dead THEN L
  ELSE openlibs(openlib(L, Head(libs)), Tail(libs))

\* dostring that returns true after the protected call whatever its status.
dostring_ignore_status(L, str, env) ==
  LET save == ScopedSavedStack(L)
      L1 == luaL_loadstring(L, str)
  IN IF L1.status # 0
     THEN ScopedSavedStack_dtor(Return(handle(L1.status, L1), "false"), save)
     ELSE LET L2 == IF env # NilEnv THEN lua_setupvalue(LuaTable_push(L1, env)) ELSE L1
              L3 == lua_pcall_wrap(L2)
          IN ScopedSavedStack_dtor(Return(L3, "true"), save)

\* dostring without the stack guard.
dostring_noguard(L, str, env) ==
  LET L1 == luaL_loadstring(L, str)
  IN IF L1.status # 0
     THEN Return(handle(L1.status, L1), "false")
     ELSE LET L2 == IF env # NilEnv THEN lua_setupvalue(LuaTable_push(L1, env)) ELSE L1
              L3 == lua_pcall_wrap(L2)
          IN IF L3.status # 0
             THEN Return(handle(L3.status, L3), "false")
             ELSE Return(L3, "true")

\* dostring that returns false on a compile failure without routing it.
dostring_silent_compile(L, str, env) ==
  LET save == ScopedSavedStack(L)
      L1 == luaL_loadstring(L, str)
  IN IF L1.status # 0
     THEN ScopedSavedStack_dtor(Return(L1, "false"), save)
     ELSE LET L2 == IF env # NilEnv THEN lua_setupvalue(LuaTable_push(L1, env)) ELSE L1
              L3 == lua_pcall_wrap(L2)
          IN IF L3.status # 0
             THEN ScopedSavedStack_dtor(Return(handle(L3.status, L3), "false"), save)
             ELSE ScopedSavedStack_dtor(Return(L3, "true"), save)

\* dostring that never binds the environment table.
dostring_noenv(L, str, env) ==
  LET save == ScopedSavedStack(L)
      L1 == luaL_loadstring(L, str)
  IN IF L1.status # 0
     THEN ScopedSavedStack_dtor(Return(handle(L1.status, L1), "false"), save)
     ELSE LET L3 == lua_pcall_wrap(L1)
          IN IF L3.status # 0
             THEN ScopedSavedStack_dtor(Return(handle(L3.status, L3), "false"), save)
             ELSE ScopedSavedStack_dtor(Return(L3, "true"), save)

\* State::dostring
dostring(L, str, env) ==
  LET save == ScopedSavedStack(L)
      L1 == luaL_loadstring(L, str)
  IN IF L1.status # 0
     THEN ScopedSavedStack_dtor(Return(handle(L1.status, L1), "false"), save)
     ELSE LET L2 == IF env # NilEnv THEN lua_setupvalue(LuaTable_push(L1, env)) ELSE L1
              L3 == lua_pcall_wrap(L2)
          IN IF L3.status # 0
             THEN ScopedSavedStack_dtor(Return(handle(L3.status, L3), "false"), save)
             ELSE ScopedSavedStack_dtor(Return(L3, "true"), save)

\* State::dofile
dofile(L, file, env) ==
  LET save == ScopedSavedStack(L)
      L1 == luaL_loadfile(L, file)
  IN IF L1.status # 0
     THEN ScopedSavedStack_dtor(Return(handle(L1.status, L1), "false"), save)
     ELSE LET L2 == IF env # NilEnv THEN lua_setupvalue(LuaTable_push(L1, env)) ELSE L1
              L3 == lua_pcall_wrap(L2)
          IN IF L3.status # 0
             THEN ScopedSavedStack_dtor(Return(handle(L3.status, L3), "false"), save)
             ELSE ScopedSavedStack_dtor(Return(L3, "true"), save)

\* State::pushToStack
pushToStack(L, value) == lua_push(L, StackVal("value", value, "-"))

\* State::popFromStack: LuaRef(state_, StackTop()) moves the top value into
\* the registry.
popFromStack(L) == lua_pop(L, 1)

\* operator[] that reads the global at once: it pushes the table and then
\* the value the table has for the name.
operator_index_eager(L, h, str) ==
  LET stack_top == lua_gettop(L)
      L1 == LuaTable_push(L, GlobalTable)
      L2 == lua_push(Event(L1, "gettable"), StackVal("value", "global", str))
      table_index == stack_top + 1
  IN Return([L2 EXCEPT !.ref = [alive |-> TRUE, h |-> h, table_index |-> table_index,
                                key |-> str, stack_top |-> stack_top]], "ref")

\* State::operator[]: pushes the global table and returns a
\* TableKeyReference(state_, table_index, str, stack_top, NoTypeCheck()).
operator_index(L, h, str) ==
  LET stack_top == lua_gettop(L)
      L1 == Event(LuaTable_push(L, GlobalTable), "push")
      table_index == stack_top + 1
  IN Return([L1 EXCEPT !.ref = [alive |-> TRUE, h |-> h, table_index |-> table_index,
                                key |-> str, stack_top |-> stack_top]], "ref")

\* The end of the TableKeyReference: the stack goes back to the depth the
\* reference was given.
TableKeyReference_dtor(L) ==
  [lua_settop(L, L.ref.stack_top) EXCEPT !.ref = NoRef]

\* State::newLib: newTable() makes a table and a reference to it (the stack
\* is as before), then the table is pushed and stays on the stack.
newLib(L) == LuaTable_push(L, "lib")

\* The constructors, applied to the VM the member initialisers made.
\* State() and State(shared_ptr<Allocator>)
State_ctor_all(L) == openlibs_std(init(lua_atpanic(L, "default_panic")))

\* A constructor that installs the panic function after it has loaded the
\* libraries.
State_ctor_libs_panic_last(L, libs) ==
  lua_atpanic(openlibs(init(L), libs), "default_panic")

\* State(const LoadLibs&) and State(const LoadLibs&, shared_ptr<Allocator>)
State_ctor_libs(L, libs) == openlibs(init(lua_atpanic(L, "default_panic")), libs)

\* State(lua_State*) that installs the panic function as the other constructors do.
State_ctor_adopt_panic(L) == init(lua_atpanic(L, "default_panic"))

\* State(lua_State*) that does nothing to the VM.
State_ctor_adopt_noinit(L) == L

\* State(lua_State*)
State_ctor_adopt(L) == init(L)

\* The members are destroyed after the destructor's body: allocator_holder_
\* gives up its share of the allocator.
release_allocator_holder(L) ==
  IF L.holder = "null" THEN L
  ELSE [Event(L, "release_allocator") EXCEPT !.shares = @ - 1, !.holder = "null"]

\* ~State that closes the VM whoever made it.
State_dtor_always(L, created_) == release_allocator_holder(lua_close(L))

\* ~State that never closes the VM.
State_dtor_never(L, created_) == release_allocator_holder(L)

\* ~State that gives up the allocator before it closes the VM.
State_dtor_release_first(L, created_) ==
  LET L1 == release_allocator_holder(L)
  IN IF created_ THEN lua_close(L1) ELSE L1

\* ~State that takes the handler of its VM out of the registry.
State_dtor_unregister(L, created_) ==
  release_allocator_holder([(IF created_ THEN lua_close(L) ELSE L) EXCEPT !.handler = NoHandler])

\* State::~State
State_dtor(L, created_) ==
  release_allocator_holder(IF created_ THEN lua_close(L) ELSE L)

\* ------------------------------------------------------------------ actions
VMFields == DOMAIN ClosedVM

NoHandle == [alive |-> FALSE, state_ |-> 0, created_ |-> FALSE, allocator_holder_ |-> "null"]


NoArgs == [str |-> "-", env |-> "-", libs |-> <<>>, f |-> "-"]

\* The shares State objects hold of the allocator of the VM at v (the host
\* keeps none).
Shares(v) ==
  Cardinality({h \in Handles : /\ handles[h].alive /\ handles[h].state_ = v
                               /\ handles[h].allocator_holder_ # "null"})

\* The record an operation on the VM at identity v starts from.
Ctx(vm, v) ==
  [f \in VMFields |-> vm[f]] @@
  [handler |-> handlers[v], status |-> 0, ret |-> "void",
   trace |-> <<>>, calls |-> <<>>, dead |-> FALSE,
   holder |-> "null", shares |-> Shares(v), uaf |-> FALSE, ref |-> ref]

\* What the operation saw on entry.
Pre(L) == [stack |-> L.stack, open |-> L.open, panic |-> L.panic, ud |-> L.ud,
           handler |-> L.handler, globals |-> L.tables[GlobalTable], ref |-> L.ref]

\* The operation's effects: the VM, its registry entry, the process.
Commit(op, h, created, v, args, L0, L) ==
  /\ vms' = [vms EXCEPT ![v] = [[f \in VMFields |-> L[f]] EXCEPT !.tables[EnvTable] = EmptyTables[EnvTable]]]
  /\ handlers' = [handlers EXCEPT ![v] = L.handler]
  /\ aborted' = L.dead
  /\ asked' = IF op = "setErrorHandler"
              THEN [asked EXCEPT ![v] = [prev |-> @.cur, cur |-> args.f, by |-> h]]
              ELSE asked
  /\ ref' = L.ref
  /\ last' = [op |-> op, h |-> h, created |-> created, v |-> v, args |-> args,
              pre |-> Pre(L0), ret |-> L.ret, trace |-> L.trace, calls |-> L.calls,
              top |-> Len(L.stack), env |-> L.tables[EnvTable], uaf |-> L.uaf]
  /\ UNCHANGED <<gcvars, allocvars>>

Live(h) == handles[h].alive /\ ~aborted /\ vms[handles[h].state_].open

Referenced(v) == \E h \in Handles : handles[h].alive /\ handles[h].state_ = v

\* The host makes a VM of its own.
ExtNewState(v) ==
  /\ ~aborted /\ ~vms[v].open /\ ~Referenced(v)
  /\ LET L == Ctx(luaL_newstate("ext"), v)
     IN Commit("ext_newstate", 0, FALSE, v, NoArgs, L, L)
  /\ UNCHANGED handles

\* The host closes a VM of its own.
ExtClose(v) ==
  /\ ~aborted /\ vms[v].open /\ vms[v].owner = "ext" /\ ~Referenced(v)
  /\ LET L == Ctx(vms[v], v)
     IN Commit("ext_close", 0, FALSE, v, NoArgs, L, lua_close(L))
  /\ UNCHANGED handles

\* The member initialisers of the fresh-VM constructors: allocator_holder_
\* first, then state_ from luaL_newstate() or from lua_newstate with the
\* allocator the holder holds.
NewVM(alloc) ==
  IF alloc = "null" THEN luaL_newstate("handle") ELSE lua_newstate("handle", alloc)

HeldBy(alloc) == IF alloc = "null" THEN 0 ELSE 1

\* State() and State(allocator): a fresh VM with the standard libraries.
ConstructAll(h, v, alloc) ==
  /\ ~aborted /\ ~handles[h].alive /\ ~vms[v].open /\ ~Referenced(v)
  /\ LET L == [Ctx(NewVM(alloc), v) EXCEPT !.holder = alloc, !.shares = HeldBy(alloc)]
     IN Commit("State_all", h, TRUE, v, NoArgs, L, State_ctor_all(L))
  /\ handles' = [handles EXCEPT ![h] =
        [alive |-> TRUE, state_ |-> v, created_ |-> TRUE, allocator_holder_ |-> alloc]]

\* State(libs) and State(libs, allocator): a fresh VM with the listed libraries.
ConstructLibs(h, v, alloc, libs) ==
  /\ ~aborted /\ ~handles[h].alive /\ ~vms[v].open /\ ~Referenced(v)
  /\ LET L == [Ctx(NewVM(alloc), v) EXCEPT !.holder = alloc, !.shares = HeldBy(alloc)]
     IN Commit("State_libs", h, TRUE, v, [NoArgs EXCEPT !.libs = libs], L, State_ctor_libs(L, libs))
  /\ handles' = [handles EXCEPT ![h] =
        [alive |-> TRUE, state_ |-> v, created_ |-> TRUE, allocator_holder_ |-> alloc]]

\* State(lua_State*): adopts a VM that exists.
Adopt(h, v) ==
  /\ ~aborted /\ ~handles[h].alive /\ vms[v].open
  /\ LET L == Ctx(vms[v], v)
     IN Commit("State_adopt", h, FALSE, v, NoArgs, L, State_ctor_adopt(L))
  /\ handles' = [handles EXCEPT ![h] =
        [alive |-> TRUE, state_ |-> v, created_ |-> FALSE, allocator_holder_ |-> "null"]]

\* ~State
Destroy(h) ==
  /\ ~aborted /\ handles[h].alive
  /\ LET v == handles[h].state_
         L == [Ctx(vms[v], v) EXCEPT !.holder = handles[h].allocator_holder_]
     IN Commit("dtor", h, handles[h].created_, v, NoArgs, L, State_dtor(L, handles[h].created_))
  /\ handles' = [handles EXCEPT ![h] = NoHandle]

\* A public method of a live State object, applied to its VM.
Method(op, h, args, L1) ==
  LET v == handles[h].state_
  IN /\ Commit(op, h, handles[h].created_, v, args, Ctx(vms[v], v), L1)
     /\ UNCHANGED handles

Cur(h) == Ctx(vms[handles[h].state_], handles[h].state_)

SetErrorHandler(h, f) ==
  Live(h) /\ Method("setErrorHandler", h, [NoArgs EXCEPT !.f = f], setErrorHandler(Cur(h), f))

OpenlibsStd(h) ==
  Live(h) /\ Method("openlibs_std", h, NoArgs, openlibs_std(Cur(h)))

Openlib(h, lib) ==
  Live(h) /\ Method("openlib", h, [NoArgs EXCEPT !.libs = <<lib>>], openlib(Cur(h), lib))

Openlibs(h, libs) ==
  Live(h) /\ Method("openlibs", h, [NoArgs EXCEPT !.libs = libs], openlibs(Cur(h), libs))

Dostring(h, str, env) ==
  Live(h) /\ Method("dostring", h, [NoArgs EXCEPT !.str = str, !.env = env], dostring(Cur(h), str, env))

Dofile(h, file, env) ==
  Live(h) /\ Method("dofile", h, [NoArgs EXCEPT !.str = file, !.env = env], dofile(Cur(h), file, env))

PushToStack(h) ==
  /\ Live(h) /\ Len(vms[handles[h].state_].stack) < MaxStack
  /\ Method("pushToStack", h, NoArgs, pushToStack(Cur(h), "v"))

PopFromStack(h) ==
  /\ Live(h) /\ Len(vms[handles[h].state_].stack) > 0
  /\ Method("popFromStack", h, NoArgs, popFromStack(Cur(h)))

NewLib(h) ==
  /\ Live(h) /\ Len(vms[handles[h].state_].stack) < MaxStack
  /\ Method("newLib", h, NoArgs, newLib(Cur(h)))

\* A fresh-mode constructor when lua_newstate / luaL_newstate returns no VM
\* (no memory, or a LuaJIT build for a 64 bit target asked for a custom
\* allocator): lua_atpanic is called with a null lua_State and the process
\* dies.
ConstructNoVM(h, alloc) ==
  /\ ~aborted /\ ~handles[h].alive
  /\ aborted' = TRUE
  /\ last' = [op |-> "State_novm", h |-> h, created |-> TRUE, v |-> 0,
              args |-> [NoArgs EXCEPT !.f = alloc],
              pre |-> Pre(Ctx(ClosedVM, 1)), ret |-> "void",
              trace |-> <<"lua_newstate", "crash">>, calls |-> <<>>,
              top |-> 0, env |-> EmptyTables[EnvTable], uaf |-> FALSE]
  /\ UNCHANGED <<vms, handlers, handles, asked, gcvars, allocvars, ref>>

IndexNames == {"x", "y"}

\* state[str]: one reference at a time; its table may sit one slot above
\* what pushToStack may fill.
Index(h, str) ==
  /\ Live(h) /\ ~ref.alive /\ Len(vms[handles[h].state_].stack) < MaxStack + 1
  /\ Method("operator[]", h, [NoArgs EXCEPT !.str = str], operator_index(Cur(h), h, str))

\* The reference goes out of scope.
RefDestroy ==
  /\ ref.alive /\ Live(ref.h)
  /\ Method("ref_dtor", ref.h, NoArgs, TableKeyReference_dtor(Cur(ref.h)))

InitMain ==
  /\ vms = [v \in VMs |-> ClosedVM]
  /\ handlers = [v \in VMs |-> NoHandler]
  /\ handles = [h \in Handles |-> NoHandle]
  /\ aborted = FALSE
  /\ asked = [v \in VMs |-> [prev |-> NoHandler, cur |-> NoHandler, by |-> 0]]
  /\ last = [op |-> "none", h |-> 0, created |-> FALSE, v |-> 0, args |-> NoArgs,
             pre |-> Pre(Ctx(ClosedVM, 1)), ret |-> "void", trace |-> <<>>, calls |-> <<>>,
             top |-> 0, env |-> EmptyTables[EnvTable], uaf |-> FALSE]

\* A new VM's collector: running, no garbage, Lua's default tunables.
NewGC(version) == [version |-> version, running |-> TRUE, live |-> 1, garbage |-> 0,
                   pause |-> 200, stepmul |-> 200, reti |-> 0, retb |-> FALSE]

NoGCCall == [op |-> "none", arg |-> 0, reti |-> 0, retb |-> FALSE, wasrunning |-> TRUE,
             requested |-> TRUE]

NullPtr == "null"

\* No block allocated.
EmptyHeap == [p \in {} |-> 0]

NoAllocCall == [op |-> "none", ptr |-> NullPtr, osize |-> 0, nsize |-> 0,
                pre |-> EmptyHeap, ret |-> NullPtr, acts |-> <<>>,
                bret |-> NullPtr, run |-> "LUA_OK", brun |-> "LUA_OK"]

InitAllocNone ==
  /\ heap = EmptyHeap /\ builtin = EmptyHeap
  /\ aud = "allocator"
  /\ alast = NoAllocCall

Init ==
  /\ ref = NoRef
  /\ InitMain
  /\ gc = NewGC(503)
  /\ gclast = NoGCCall
  /\ InitAllocNone

Next ==
  \/ \E v \in VMs : ExtNewState(v)
  \/ \E v \in VMs : ExtClose(v)
  \/ \E h \in Handles, v \in VMs, a \in {"null", "allocator"} : ConstructAll(h, v, a)
  \/ \E h \in Handles, v \in VMs, a \in {"null", "allocator"}, libs \in LoadLibsLists :
        ConstructLibs(h, v, a, libs)
  \/ \E h \in Handles, a \in {"null", "allocator"} : ConstructNoVM(h, a)
  \/ \E h \in Handles, v \in VMs : Adopt(h, v)
  \/ \E h \in Handles : Destroy(h)
  \/ \E h \in Handles, f \in UserHandlers : SetErrorHandler(h, f)
  \/ \E h \in Handles : OpenlibsStd(h)
  \/ \E h \in Handles, lib \in Libs : Openlib(h, lib)
  \/ \E h \in Handles, libs \in LoadLibsLists : Openlibs(h, libs)
  \/ \E h \in Handles, str \in Chunks, env \in {NilEnv, EnvTable} : Dostring(h, str, env)
  \/ \E h \in Handles, file \in Files, env \in {NilEnv, EnvTable} : Dofile(h, file, env)
  \/ \E h \in Handles : PushToStack(h)
  \/ \E h \in Handles : PopFromStack(h)
  \/ \E h \in Handles : NewLib(h)

Spec == Init /\ [][Next]_vars

\* The operations that meet a reference made by operator[] while it lives.
NextRef ==
  \/ \E h \in Handles, v \in VMs, a \in {"null", "allocator"} : ConstructAll(h, v, a)
  \/ \E h \in Handles, v \in VMs : Adopt(h, v)
  \/ \E h \in Handles, str \in IndexNames : Index(h, str)
  \/ RefDestroy
  \/ \E h \in Handles, str \in {"ret2", "setx"} : Dostring(h, str, NilEnv)
  \/ \E h \in Handles : PushToStack(h)
  \/ \E h \in Handles : PopFromStack(h)
  \/ \E h \in Handles : NewLib(h)

SpecRef == Init /\ [][NextRef]_vars

\* ------------------------------------------------------- State::GCType
\* LUA_VERSION_NUM of the build: Lua 5.1, 5.2, 5.3.
LuaVersions == {501, 502, 503}

\* lua_gc(L, what, data) on the collector g of the VM.
lua_gc(g, what, data) ==
  CASE what = "LUA_GCSTOP"    -> [g EXCEPT !.running = FALSE, !.reti = 0]
    [] what = "LUA_GCRESTART" -> [g EXCEPT !.running = TRUE, !.reti = 0]
    [] what = "LUA_GCCOLLECT" ->
         [g EXCEPT !.garbage = 0, !.reti = 0,
                   !.running = IF g.version = 501 THEN TRUE ELSE @]
    [] what = "LUA_GCSTEP" ->
         LET left == IF g.garbage > 1 + data THEN g.garbage - (1 + data) ELSE 0
         IN [g EXCEPT !.garbage = left, !.reti = IF left = 0 THEN 1 ELSE 0,
                      !.running = IF g.version = 501 THEN TRUE ELSE @]
    [] what = "LUA_GCCOUNT"      -> [g EXCEPT !.reti = g.live + g.garbage]
    [] what = "LUA_GCSETPAUSE"   -> [g EXCEPT !.reti = g.pause, !.pause = data]
    [] what = "LUA_GCSETSTEPMUL" -> [g EXCEPT !.reti = g.stepmul, !.stepmul = data]
    [] what = "LUA_GCISRUNNING"  -> [g EXCEPT !.reti = IF g.running THEN 1 ELSE 0]

\* GCType::collect
GC_collect(g) == lua_gc(g, "LUA_GCCOLLECT", 0)

\* GCType::step()
GC_step(g) == LET r == lua_gc(g, "LUA_GCSTEP", 0) IN [r EXCEPT !.retb = (r.reti = 1)]

\* GCType::step(int size)
GC_step_size(g, size) ==
  LET r == lua_gc(g, "LUA_GCSTEP", size) IN [r EXCEPT !.retb = (r.reti = 1)]

\* GCType::count
GC_count(g) == lua_gc(g, "LUA_GCCOUNT", 0)

\* GCType::steppause
GC_steppause(g, value) == lua_gc(g, "LUA_GCSETPAUSE", value)

\* GCType::setstepmul
GC_setstepmul(g, value) == lua_gc(g, "LUA_GCSETSTEPMUL", value)

\* GCType::enable
GC_enable(g) == lua_gc(g, "LUA_GCRESTART", 0)

\* disable that restarts the collector.
GC_disable_restarts(g) == lua_gc(g, "LUA_GCRESTART", 0)

\* GCType::disable
GC_disable(g) == lua_gc(g, "LUA_GCSTOP", 0)

\* GCType::restart
GC_restart(g) == GC_enable(g)

\* GCType::stop
GC_stop(g) == GC_disable(g)

\* GCType::isenabled
GC_isenabled(g) ==
  LET r == lua_gc(g, "LUA_GCISRUNNING", 0) IN [r EXCEPT !.retb = (r.reti # 0)]

\* GCType::isrunning
GC_isrunning(g) == GC_isenabled(g)

\* The members of GCType the build compiles.
GCMethods(version) ==
  {"collect", "step", "step_size", "restart", "stop", "count", "steppause",
   "setstepmul", "enable", "disable"}
  \cup (IF version >= 502 THEN {"isrunning", "isenabled"} ELSE {})

\* A call of a member of State::gc(); requested is the last of enable and
\* disable (restart and stop) the host called.
GCCall(op, arg, g) ==
  /\ op \in GCMethods(gc.version)
  /\ gc' = g
  /\ gclast' = [op |-> op, arg |-> arg, reti |-> g.reti, retb |-> g.retb,
                wasrunning |-> gc.running,
                requested |-> IF op \in {"enable", "restart"} THEN TRUE
                              ELSE IF op \in {"disable", "stop"} THEN FALSE
                              ELSE gclast.requested]
  /\ UNCHANGED <<mainvars, allocvars, ref>>

GCCollect      == GCCall("collect", 0, GC_collect(gc))
GCStep         == GCCall("step", 0, GC_step(gc))
GCStepSize(n)  == GCCall("step_size", n, GC_step_size(gc, n))
GCCount        == GCCall("count", 0, GC_count(gc))
GCSteppause(n) == GCCall("steppause", n, GC_steppause(gc, n))
GCSetstepmul(n) == GCCall("setstepmul", n, GC_setstepmul(gc, n))
GCEnable       == GCCall("enable", 0, GC_enable(gc))
GCDisable      == GCCall("disable", 0, GC_disable(gc))
GCRestart      == GCCall("restart", 0, GC_restart(gc))
GCStop         == GCCall("stop", 0, GC_stop(gc))
GCIsenabled    == GCCall("isenabled", 0, GC_isenabled(gc))
GCIsrunning    == GCCall("isrunning", 0, GC_isrunning(gc))

\* A script makes a KByte of garbage.
GCAllocate ==
  /\ gc.garbage < MaxKB
  /\ gc' = [gc EXCEPT !.garbage = @ + 1]
  /\ UNCHANGED <<gclast, mainvars, allocvars, ref>>

\* The collector, when it runs, collects on its own.
GCAutomatic ==
  /\ gc.running /\ gc.garbage > 0
  /\ gc' = [gc EXCEPT !.garbage = @ - 1]
  /\ UNCHANGED <<gclast, mainvars, allocvars, ref>>

InitGC ==
  /\ ref = NoRef
  /\ InitMain
  /\ \E version \in LuaVersions : gc = NewGC(version)
  /\ gclast = NoGCCall
  /\ InitAllocNone

NextGC ==
  \/ GCCollect
  \/ GCStep
  \/ \E n \in {1} : GCStepSize(n)
  \/ GCCount
  \/ \E n \in {100, 200} : GCSteppause(n)
  \/ \E n \in {100, 200} : GCSetstepmul(n)
  \/ GCEnable
  \/ GCDisable
  \/ GCRestart
  \/ GCStop
  \/ GCIsenabled
  \/ GCIsrunning
  \/ GCAllocate
  \/ GCAutomatic

SpecGC == InitGC /\ [][NextGC]_vars

\* ------------------------------------------- AllocatorFunction, DefaultAllocator
\* A heap is a function from the addresses of the allocated blocks to their
\* sizes.  An operator takes and returns a record H: the heap, the value
\* returned, and the actions AllocatorFunction has taken on its allocator.
\* What the C library is free to choose comes in as o: o.pick is the address
\* it would hand out (NullPtr: it fails), o.zero is what its realloc does
\* with a new size of zero.
MaxSize == 2

Ptrs == {"p1", "p2"}
Sizes == 0 .. MaxSize
ZeroChoices == {"free_null", "free_block", "keep_null"}
Oracles == [pick : Ptrs \cup {NullPtr}, zero : ZeroChoices]

NewH(h) == [heap |-> h, ret |-> NullPtr, acts |-> <<>>]

Drop(h, p) == [q \in DOMAIN h \ {p} |-> h[q]]
Put(h, p, n) == [q \in DOMAIN h \cup {p} |-> IF q = p THEN n ELSE h[q]]
Act(H, a) == [H EXCEPT !.acts = Append(@, a)]

\* std::free
std_free(H, p) == [H EXCEPT !.heap = Drop(@, p), !.ret = NullPtr]

\* std::malloc: a block that is not in use, or null; for size zero the
\* library may return null as well.
std_malloc(H, n, o) ==
  IF \/ o.pick = NullPtr \/ o.pick \in DOMAIN H.heap
     \/ (n = 0 /\ o.zero # "free_block")
  THEN [H EXCEPT !.ret = NullPtr]
  ELSE [H EXCEPT !.heap = Put(@, o.pick, n), !.ret = o.pick]

\* std::realloc: malloc for a null pointer; for size zero what the library
\* chooses (free and return null, free and return a block of no size, leave
\* the block and return null); otherwise the block resized where it is, or
\* moved, or null and the block untouched.
std_realloc(H, p, n, o) ==
  IF p = NullPtr THEN std_malloc(H, n, o)
  ELSE IF n = 0 THEN
    CASE o.zero = "free_null"  -> std_free(H, p)
      [] o.zero = "free_block" -> std_malloc(std_free(H, p), 0, o)
      [] o.zero = "keep_null"  -> [H EXCEPT !.ret = NullPtr]
  ELSE IF o.pick = NullPtr THEN [H EXCEPT !.ret = NullPtr]
  ELSE IF o.pick = p THEN [H EXCEPT !.heap = Put(@, p, n), !.ret = p]
  ELSE IF o.pick \in DOMAIN H.heap THEN [H EXCEPT !.ret = NullPtr]
  ELSE [H EXCEPT !.heap = Put(Drop(@, p), o.pick, n), !.ret = o.pick]

\* DefaultAllocator::allocate
DefaultAllocator_allocate(H, n, o) == std_malloc(H, n, o)

\* DefaultAllocator::reallocate
DefaultAllocator_reallocate(H, p, n, o) == std_realloc(H, p, n, o)

\* A deallocate that frees nothing.
DefaultAllocator_deallocate_leak(H, p, n) == H

\* DefaultAllocator::deallocate
DefaultAllocator_deallocate(H, p, n) == std_free(H, p)

\* An AllocatorFunction that looks at the new size before it looks at ud.
AllocatorFunction_size_first(H, ud, ptr, osize, nsize, o) ==
  IF nsize = 0
  THEN [DefaultAllocator_deallocate(Act(H, "deallocate"), ptr, osize) EXCEPT !.ret = NullPtr]
  ELSE IF ud = NullPtr THEN std_realloc(Act(H, "std::realloc"), ptr, nsize, o)
  ELSE IF ptr # NullPtr THEN DefaultAllocator_reallocate(Act(H, "reallocate"), ptr, nsize, o)
  ELSE DefaultAllocator_allocate(Act(H, "allocate"), nsize, o)

\* AllocatorFunction<DefaultAllocator>
AllocatorFunction(H, ud, ptr, osize, nsize, o) ==
  IF ud = NullPtr THEN std_realloc(Act(H, "std::realloc"), ptr, nsize, o)
  ELSE IF nsize = 0
  THEN [DefaultAllocator_deallocate(Act(H, "deallocate"), ptr, osize) EXCEPT !.ret = NullPtr]
  ELSE IF ptr # NullPtr THEN DefaultAllocator_reallocate(Act(H, "reallocate"), ptr, nsize, o)
  ELSE DefaultAllocator_allocate(Act(H, "allocate"), nsize, o)

\* The allocator of a VM made by luaL_newstate().
l_alloc(H, ptr, osize, nsize, o) ==
  IF nsize = 0 THEN std_free(H, ptr) ELSE std_realloc(H, ptr, nsize, o)

\* What the run operation that made the request comes to: a null answer to a
\* request for memory is the VM's out-of-memory error, which the protected
\* call returns as LUA_ERRMEM.
RunStatus(nsize, ret) ==
  IF nsize # 0 /\ ret = NullPtr THEN "LUA_ERRMEM" ELSE "LUA_OK"

\* Two VMs, one made with AllocatorFunction and ud = aud, one by
\* luaL_newstate(), run the same chunk and ask for the same memory; the C
\* library makes the same choices for both.
VMRequest(op, ptr, osize, nsize, o) ==
  /\ ptr # NullPtr => (ptr \in DOMAIN heap /\ ptr \in DOMAIN builtin /\ osize = heap[ptr])
  /\ LET H == AllocatorFunction(NewH(heap), aud, ptr, osize, nsize, o)
         B == l_alloc(NewH(builtin), ptr, osize, nsize, o)
     IN /\ heap' = H.heap
        /\ builtin' = B.heap
        /\ alast' = [op |-> op, ptr |-> ptr, osize |-> osize, nsize |-> nsize,
                     pre |-> heap, ret |-> H.ret, acts |-> H.acts, bret |-> B.ret,
                     run |-> RunStatus(nsize, H.ret), brun |-> RunStatus(nsize, B.ret)]
  /\ UNCHANGED <<aud, mainvars, gcvars, ref>>

\* A new object: no block, the kind of object in osize.
VMAllocate(kind, nsize, o) == nsize # 0 /\ VMRequest("allocate", NullPtr, kind, nsize, o)

\* An object grows or shrinks.
VMResize(ptr, nsize, o) ==
  /\ nsize # 0 /\ ptr \in DOMAIN heap
  /\ VMRequest("resize", ptr, heap[ptr], nsize, o)

\* An object is freed; Lua also frees null pointers.
VMFree(ptr, o) ==
  /\ ptr \in DOMAIN heap \cup {NullPtr}
  /\ VMRequest("free", ptr, IF ptr \in DOMAIN heap THEN heap[ptr] ELSE 0, 0, o)

InitAlloc ==
  /\ ref = NoRef
  /\ InitMain
  /\ gc = NewGC(503)
  /\ gclast = NoGCCall
  /\ heap = EmptyHeap /\ builtin = EmptyHeap
  /\ aud \in {NullPtr, "allocator"}
  /\ alast = NoAllocCall

NextAlloc ==
  \/ \E kind \in {0, MaxSize}, nsize \in Sizes, o \in Oracles : VMAllocate(kind, nsize, o)
  \/ \E ptr \in Ptrs, nsize \in Sizes, o \in Oracles : VMResize(ptr, nsize, o)
  \/ \E ptr \in Ptrs \cup {NullPtr}, o \in Oracles : VMFree(ptr, o)

SpecAlloc == InitAlloc /\ [][NextAlloc]_vars


\* ------------------------------------------------------------------- claims
Has(seq, e) == \E i \in DOMAIN seq : seq[i] = e

CtorOps    == {"State_all", "State_libs", "State_adopt"}
RunOps     == {"dostring", "dofile"}
GuardedOps == {"setErrorHandler", "openlibs_std", "openlib", "openlibs", "dostring", "dofile"}
PublicOps  == GuardedOps \cup {"pushToStack", "popFromStack", "newLib"}

IsRun == last.op \in RunOps

\* The script of the last run: status and message of its compile step, body.
RunLoadStatus == IF last.op = "dostring" THEN ChunkDef[last.args.str].loadStatus
                 ELSE FileDef[last.args.str].loadStatus
RunLoadMsg    == IF last.op = "dostring" THEN ChunkDef[last.args.str].msg
                 ELSE FileDef[last.args.str].msg
RunBody       == IF last.op = "dostring" THEN ChunkDef[last.args.str]
                 ELSE ChunkDef[FileDef[last.args.str].chunk]
RunFailStatus == IF RunLoadStatus # 0 THEN RunLoadStatus ELSE RunBody.runStatus
RunFailMsg    == IF RunLoadStatus # 0 THEN RunLoadMsg ELSE RunBody.msg

\* tbl is `before` with every assignment of writes made, the later one winning.
Landed(tbl, before, writes) ==
  \A k \in Keys :
    LET is == {i \in DOMAIN writes : writes[i][1] = k}
    IN tbl[k] = IF is = {} THEN before[k]
                ELSE writes[CHOOSE i \in is : \A j \in is : j <= i][2]

IsLib(e) == e \in Libs
Attempts == SelectSeq(last.trace, IsLib)

\* The entries of a list up to and including the first whose registrar raises.
UpToFirstFailure(libs) ==
  LET bad == {i \in DOMAIN libs : LibDef[libs[i]].raises}
  IN IF bad = {} THEN libs
     ELSE SubSeq(libs, 1, CHOOSE i \in bad : \A j \in bad : i <= j)

\* C1: no operation of a State that adopted its VM, its destructor included,
\* calls lua_close, and the VM is open afterwards exactly if it was before.
C1_AdoptedNeverClosed ==
  (last.h # 0 /\ ~last.created) =>
     /\ ~Has(last.trace, "lua_close")
     /\ vms[last.v].open = last.pre.open

C1_Witness ==
  /\ last.op = "dtor" /\ ~last.created
  /\ vms[last.v].open /\ vms[last.v].owner = "ext"
  /\ \A h \in Handles : ~handles[h].alive

\* C2 as stated: every public operation that returns leaves the stack at the
\* depth it had on entry.
C2_Original ==
  (last.op \in PublicOps /\ ~aborted) => last.top = Len(last.pre.stack)

\* C2 as amended: the operations that hold a stack guard (setErrorHandler,
\* openlibs, openlib, dofile, dostring) leave the stack at the depth it had on
\* entry when they return; pushToStack and newLib leave it one deeper and
\* popFromStack one shallower.
C2_GuardedOpsKeepDepth ==
  ~aborted =>
     /\ last.op \in GuardedOps => last.top = Len(last.pre.stack)
     /\ last.op \in {"pushToStack", "newLib"} => last.top = Len(last.pre.stack) + 1
     /\ last.op = "popFromStack" => last.top = Len(last.pre.stack) - 1

C2_Witness ==
  /\ last.op = "openlib" /\ ~aborted
  /\ last.pre.stack # <<>>
  /\ Attempts = <<"good">>
  /\ last.top = Len(last.pre.stack)

\* C3: a run returns true exactly if the compile status and the status of the
\* protected call are both zero; otherwise it returns false, the process
\* lives, and the handler of the VM was called once, with the non-zero status
\* and the message; a run that returns true called no handler.
C3_RunResult ==
  IsRun =>
     /\ ~aborted
     /\ last.ret = IF RunLoadStatus = 0 /\ RunBody.runStatus = 0 THEN "true" ELSE "false"
     /\ last.ret = "true" => last.calls = <<>>
     /\ last.ret = "false" =>
          last.calls = <<[handler |-> last.pre.handler, status |-> RunFailStatus,
                          message |-> RunFailMsg]>>
     /\ last.ret = "false" => RunFailStatus # 0 /\ last.pre.handler \in Handlers

C3_Witness ==
  /\ last.op = "dostring" /\ last.args.str = "boom" /\ last.ret = "false"
  /\ last.calls = <<[handler |-> "A", status |-> 2, message |-> "boom"]>>

\* C4: a failing run calls one handler, the one the latest setErrorHandler
\* for that VM identity was called with, whatever was registered before and
\* whatever happened since.
C4_LatestHandlerOnly ==
  (IsRun /\ last.ret = "false" /\ asked[last.v].cur # NoHandler) =>
     /\ Len(last.calls) = 1
     /\ \A i \in DOMAIN last.calls : last.calls[i].handler = asked[last.v].cur

C4_Witness ==
  /\ IsRun /\ last.ret = "false"
  /\ asked[last.v].prev = "A" /\ asked[last.v].cur = "B"
  /\ Len(last.calls) = 1 /\ last.calls[1].handler = "B"

\* C5: a constructor leaves the handler registered for the identity as it
\* found it, and registers the default handler when it found none; a VM of a
\* live State always has a handler.
C5_DefaultOnlyIfAbsent ==
  /\ last.op \in CtorOps =>
        handlers[last.v] = IF last.pre.handler = NoHandler THEN "stderror_out"
                           ELSE last.pre.handler
  /\ \A h \in Handles : handles[h].alive => handlers[handles[h].state_] # NoHandler

C5_Witness ==
  /\ last.op = "State_adopt"
  /\ last.pre.handler \in UserHandlers
  /\ handlers[last.v] = last.pre.handler

\* C6: after dostring or dofile the stack is the stack the caller had before
\* the call, on every exit path.
C6_RunRestoresStack ==
  IsRun => vms[last.v].stack = last.pre.stack

C6_Witness ==
  /\ last.op = "dostring" /\ last.args.str = "boom" /\ last.args.env = EnvTable
  /\ last.ret = "false" /\ Len(last.calls) = 1
  /\ last.pre.stack # <<>> /\ vms[last.v].stack = last.pre.stack

\* C7: a run starts with the compile step; when that fails the handler gets
\* the compiler's status, the run returns false, and neither the environment
\* substitution nor the protected call happens.
C7_CompileFailureExitsEarly ==
  IsRun =>
     /\ last.trace # <<>> /\ last.trace[1] = "load"
     /\ RunLoadStatus # 0 =>
          /\ last.ret = "false"
          /\ last.trace = <<"load", "handle", "settop">>
          /\ Len(last.calls) = 1 /\ last.calls[1].status = RunLoadStatus

C7_Witness ==
  /\ last.op = "dofile" /\ last.args.str = "missing_lua" /\ last.args.env = EnvTable
  /\ last.ret = "false" /\ last.calls[1].status = 6
  /\ ~Has(last.trace, "setenv") /\ ~Has(last.trace, "pcall")

\* C8: in a run whose script compiles, a non-nil environment table is bound
\* to the chunk before it is called, its global assignments land in that
\* table and the global table stays as it was; with the nil environment
\* nothing is bound and the assignments land in the global table.
C8_EnvironmentIsolation ==
  (IsRun /\ RunLoadStatus = 0) =>
     LET G0 == last.pre.globals
         G1 == vms[last.v].tables[GlobalTable]
         E0 == EmptyTables[EnvTable]
         E1 == last.env
     IN IF last.args.env # NilEnv
        THEN /\ last.trace = <<"load", "setenv", "pcall">> \o SubSeq(last.trace, 4, Len(last.trace))
             /\ G1 = G0
             /\ Landed(E1, E0, RunBody.writes)
        ELSE /\ ~Has(last.trace, "setenv")
             /\ Landed(G1, G0, RunBody.writes)
             /\ E1 = E0

C8_Witness ==
  /\ last.op = "dostring" /\ last.args.str = "setx" /\ last.args.env = EnvTable
  /\ last.pre.globals["x"] = Nil /\ vms[last.v].tables[GlobalTable]["x"] = Nil
  /\ last.env["x"] = "10"

\* C9 as stated: adopting a VM that has no panic function installs the
\* wrapper's panic function on it.
C9_Original ==
  (last.op = "State_adopt" /\ last.pre.panic = "none") =>
     vms[last.v].panic = "default_panic"

\* C9 as amended: adopting a VM registers the default handler when none is
\* registered and leaves the VM's panic function as it was.
C9_AdoptKeepsPanic ==
  last.op = "State_adopt" =>
     /\ vms[last.v].panic = last.pre.panic
     /\ handlers[last.v] = IF last.pre.handler = NoHandler THEN "stderror_out"
                           ELSE last.pre.handler

C9_Witness ==
  /\ last.op = "State_adopt"
  /\ last.pre.panic = "none" /\ last.pre.handler = NoHandler
  /\ vms[last.v].panic = "none" /\ handlers[last.v] = "stderror_out"

\* C10 as stated: openlibs(list) attempts as many loads as the list is long,
\* whichever entries fail.
C10_Original ==
  last.op \in {"openlibs", "State_libs"} => Len(Attempts) = Len(last.args.libs)

\* C10 as amended: openlibs(list) attempts the entries in list order up to
\* and including the first whose registrar raises an error; that error is
\* raised outside any protected call, so the process aborts and the entries
\* after it are not attempted; a list with no failing entry is attempted whole.
C10_AttemptsUpToFirstFailure ==
  last.op \in {"openlibs", "State_libs"} =>
     /\ Attempts = UpToFirstFailure(last.args.libs)
     /\ aborted = (\E i \in DOMAIN last.args.libs : LibDef[last.args.libs[i]].raises)

C10_Witness ==
  /\ last.op = "openlibs" /\ last.args.libs = <<"bad", "good">>
  /\ Attempts = <<"bad">> /\ aborted

\* C11 as stated: isenabled is a member on every VM version.
C11_Original == "isenabled" \in GCMethods(gc.version)

\* C11 as amended: isenabled (and isrunning) exists only in builds for VM
\* version 5.2 or later; there, after any sequence of enable, disable,
\* restart and stop, it returns the VM's own answer, which is true exactly
\* if the last of those calls was enable or restart (or none was made);
\* builds for older versions have no isenabled and keep no state of their own.
C11_IsEnabledWhereQueryExists ==
  /\ ("isenabled" \in GCMethods(gc.version)) = (gc.version >= 502)
  /\ gclast.op \in {"isenabled", "isrunning"} =>
        /\ gc.version >= 502
        /\ gclast.retb = gc.running
        /\ gclast.retb = gclast.requested
  /\ gclast.op \in {"enable", "restart"} => gc.running
  /\ gclast.op \in {"disable", "stop"} => ~gc.running

C11_Witness ==
  /\ gclast.op = "isenabled" /\ gclast.retb = FALSE
  /\ ~gclast.requested /\ ~gc.running /\ gc.garbage > 0

Count(seq, e) == Cardinality({i \in DOMAIN seq : seq[i] = e})

\* C12: a State made in a fresh mode has created_ set as long as it lives and
\* its VM stays open that long; no VM has two owners; its destructor calls
\* lua_close once, on an open VM, and leaves the VM closed and the object
\* without a VM.
C12_OwnerClosesOnce ==
  /\ last.op \in {"State_all", "State_libs"} => last.created
  /\ \A h \in Handles :
        (handles[h].alive /\ last.h = h /\ last.op # "dtor") =>
           handles[h].created_ = last.created
  /\ \A h \in Handles :
        (handles[h].alive /\ handles[h].created_) =>
           /\ vms[handles[h].state_].open
           /\ vms[handles[h].state_].owner = "handle"
  /\ \A v \in VMs :
        Cardinality({h \in Handles : /\ handles[h].alive /\ handles[h].created_
                                     /\ handles[h].state_ = v}) <= 1
  /\ (last.op = "dtor" /\ last.created) =>
        /\ last.pre.open
        /\ Count(last.trace, "lua_close") = 1
        /\ ~vms[last.v].open
        /\ handles[last.h] = NoHandle

C12_Witness ==
  /\ last.op = "dtor" /\ last.created
  /\ last.pre.open /\ ~vms[last.v].open
  /\ Count(last.trace, "lua_close") = 1

\* C13: the VM never calls an allocator that is gone: an open VM made with a
\* custom allocator has a State holding a share of it, and the destructor of
\* that State closes the VM first and gives up the share afterwards.
C13_AllocatorOutlivesVM ==
  /\ ~last.uaf
  /\ \A v \in VMs : (vms[v].open /\ vms[v].ud # "null") => Shares(v) >= 1
  /\ (last.op = "dtor" /\ last.created /\ last.pre.ud # "null") =>
        last.trace = <<"lua_close", "release_allocator">>

C13_Witness ==
  /\ last.op = "dtor" /\ last.created /\ last.pre.ud = "allocator"
  /\ last.trace = <<"lua_close", "release_allocator">>
  /\ ~last.uaf /\ ~vms[last.v].open

FreshTrap == <<"default_panic", "fprintf", "fflush", "abort">>

\* C15: a fresh-mode constructor calls lua_atpanic before it registers a
\* handler and before it loads a library, and the VM keeps that panic
\* function; when the trap fires it writes the message, flushes, and the
\* process aborts: that is the end of the operation and no operation follows.
C15_PanicTrapFirstAndFinal ==
  /\ last.op \in {"State_all", "State_libs"} =>
        /\ last.trace # <<>> /\ last.trace[1] = "atpanic"
        /\ vms[last.v].panic = "default_panic"
  /\ \A v \in VMs : (vms[v].open /\ vms[v].owner = "handle") => vms[v].panic = "default_panic"
  /\ Has(last.trace, "default_panic") =>
        /\ Len(last.trace) >= 4
        /\ SubSeq(last.trace, Len(last.trace) - 3, Len(last.trace)) = FreshTrap
        /\ aborted
  /\ (aborted /\ last.op # "State_novm") =>
        (last.trace # <<>> /\ last.trace[Len(last.trace)] = "abort")

C15_Witness ==
  /\ last.op = "State_libs" /\ last.args.libs = <<"good", "bad">>
  /\ last.trace[1] = "atpanic"
  /\ Has(last.trace, "fflush") /\ aborted

\* C14 as stated: whatever ud is, a request with new size zero frees the
\* block through the allocator and returns null.
C14_Original ==
  (alast.op # "none" /\ alast.nsize = 0) =>
     /\ alast.acts = <<"deallocate">>
     /\ alast.ret = NullPtr
     /\ alast.ptr \notin DOMAIN heap

\* C14: with ud null the callback makes one call of the host's realloc and
\* returns what it returns, whatever the sizes; with ud not null it makes one
\* call on the allocator: deallocate and null for new size zero, reallocate
\* for a block and a new size, allocate for no block and a new size, and
\* returns what reallocate or allocate returned; null is the only sign of
\* failure and leaves the heap as it was.
C14_DispatchUdFirst ==
  alast.op # "none" =>
     /\ Len(alast.acts) = 1
     /\ aud = NullPtr => alast.acts = <<"std::realloc">>
     /\ (aud # NullPtr /\ alast.nsize = 0) =>
           /\ alast.acts = <<"deallocate">>
           /\ alast.ret = NullPtr
           /\ heap = Drop(alast.pre, alast.ptr)
     /\ (aud # NullPtr /\ alast.nsize # 0 /\ alast.ptr # NullPtr) =>
           alast.acts = <<"reallocate">>
     /\ (aud # NullPtr /\ alast.nsize # 0 /\ alast.ptr = NullPtr) =>
           alast.acts = <<"allocate">>
     /\ alast.nsize # 0 =>
           IF alast.ret = NullPtr
           THEN heap = alast.pre
           ELSE /\ alast.ret \in DOMAIN heap
                /\ heap[alast.ret] = alast.nsize
                /\ heap = Put(Drop(alast.pre, alast.ptr), alast.ret, alast.nsize)

C14_Witness ==
  /\ aud = NullPtr /\ alast.op = "free" /\ alast.ptr # NullPtr
  /\ alast.acts = <<"std::realloc">>
  /\ alast.ret # NullPtr

\* C16: a VM made with AllocatorFunction<DefaultAllocator> and a VM made by
\* luaL_newstate() that make the same requests get the same answers, hold
\* the same blocks, and their run operations end with the same status.
C16_AllocatorTransparent ==
  aud = "allocator" =>
     /\ heap = builtin
     /\ alast.ret = alast.bret
     /\ alast.run = alast.brun

C16_Witness ==
  /\ aud = "allocator" /\ alast.op = "resize"
  /\ alast.ret = NullPtr /\ alast.run = "LUA_ERRMEM" /\ alast.brun = "LUA_ERRMEM"
  /\ heap = builtin /\ DOMAIN heap = Ptrs

\* The chunk compiles and its body raises no error.
GoodChunk(str) == ChunkDef[str].loadStatus = 0 /\ ChunkDef[str].runStatus = 0

\* C17: a constructor of any of the five modes that returns leaves a live
\* State on an open VM that has a handler, with the stack as deep as it
\* found it; and dostring of a chunk that compiles and raises no error,
\* through a State made in any mode, returns true and calls no handler.
C17_ReadyAfterConstruction ==
  /\ (last.op \in CtorOps /\ ~aborted) =>
        /\ handles[last.h].alive /\ handles[last.h].state_ = last.v
        /\ handles[last.h].created_ = (last.op # "State_adopt")
        /\ vms[last.v].open
        /\ handlers[last.v] # NoHandler
        /\ last.top = Len(last.pre.stack)
  /\ (last.op = "dostring" /\ GoodChunk(last.args.str)) =>
        /\ last.ret = "true"
        /\ last.calls = <<>>
        /\ ~aborted

C17_Witness ==
  /\ last.op = "dostring" /\ last.args.str = "ret2" /\ last.ret = "true"
  /\ handles[last.h].created_ /\ handles[last.h].allocator_holder_ = "allocator"
  /\ vms[last.v].loaded = {}

\* C18 as stated: as long as the reference lives the stack is one deeper
\* than operator[] found it.
C18_Original ==
  ref.alive => Len(vms[handles[ref.h].state_].stack) = ref.stack_top + 1

\* C18: when operator[] returns, the stack is the stack it found with one
\* value on top, the global table; no global has been read or written; the
\* reference holds slot entryTop+1, the name, and entryTop; and what the
\* reference holds stays as it is while the reference lives.
C18_IndexPushesGlobalTable ==
  /\ last.op = "operator[]" =>
        /\ vms[last.v].stack = Append(last.pre.stack, StackVal("table", GlobalTable, "-"))
        /\ last.top = Len(last.pre.stack) + 1
        /\ vms[last.v].tables[GlobalTable] = last.pre.globals
        /\ last.trace = <<"push">>
        /\ ref = [alive |-> TRUE, h |-> last.h, table_index |-> Len(last.pre.stack) + 1,
                  key |-> last.args.str, stack_top |-> Len(last.pre.stack)]
  /\ ref.alive => ref.table_index = ref.stack_top + 1
  /\ last.op = "ref_dtor" => (~ref.alive /\ last.top = last.pre.ref.stack_top)

C18_Witness ==
  /\ last.op = "operator[]" /\ last.args.str = "y"
  /\ ref.alive /\ ref.stack_top = 1 /\ ref.table_index = 2
  /\ Len(vms[last.v].stack) = 2

C20_HandlerSharedByHandles ==
  /\ last.op = "setErrorHandler" =>
        /\ handlers[last.v] = last.args.f
        /\ asked[last.v].by = last.h
  /\ (IsRun /\ last.ret = "false" /\ asked[last.v].by \notin {0, last.h}) =>
        /\ Len(last.calls) = 1
        /\ last.calls[1].handler = asked[last.v].cur
        /\ handlers[last.v] = asked[last.v].cur

C20_Witness ==
  /\ IsRun /\ last.ret = "false"
  /\ asked[last.v].by \notin {0, last.h}
  /\ handles[asked[last.v].by].alive /\ handles[asked[last.v].by].state_ = last.v
  /\ handles[last.h].created_ /\ ~handles[asked[last.v].by].created_
  /\ last.calls[1].handler = asked[last.v].cur /\ asked[last.v].cur = "B"

====
